---- MODULE Spec2Model ----
(***************************************************************************)
(* Model of the NMR restraint / PDB cross-referencing tool.                *)
(*                                                                         *)
(* Two variants of the program exist: src/test_general.py ("general") and  *)
(* src/nmr_pdb_restraint_mapper.py ("mapper").  Text is modelled as        *)
(* sequences of one-character strings, so that strip, startswith, slicing  *)
(* and the two regular expressions are computed character by character.    *)
(***************************************************************************)
EXTENDS Integers, Sequences, FiniteSets, TLC

VARIABLES
    variant,       \* which source file is running: "general" or "mapper"
    entry,         \* the function called from outside: "main", "parse_pdb_file",
                   \* "link_mr_to_pdb" or "convert_atom_name"
    pc,            \* position of the running code
    mr_lines,      \* lines of the MR file (input)
    pdb_lines,     \* lines of the PDB file (input)
    pos,           \* index of the next line / record of the running loop
    mr_data,       \* parse_mr_file: records produced so far; later link's input
    header_block,  \* parse_mr_file: pending header lines
    in_header,     \* parse_mr_file: header flag
    pdb_data,      \* parse_pdb_file: the index (dict) ; later link's input
    linked_data,   \* link_mr_to_pdb: linked records
    warnings,      \* link_mr_to_pdb: tally of unresolved references
    out,           \* main: lines written to the output file
    name,          \* convert_atom_name: the argument
    conv           \* convert_atom_name: results of successive applications

vars == <<variant, entry, pc, mr_lines, pdb_lines, pos, mr_data, header_block,
          in_header, pdb_data, linked_data, warnings, out, name, conv>>

Variants == {"general", "mapper"}

----------------------------------------------------------------------------
(* Characters and Python string primitives                                 *)

PRIME == "'"
QUOTE == "\""
HASH  == "#"
STAR  == "*"
BANG  == "!"
SP    == " "

Digits == {"0", "1", "2", "3", "4", "5", "6", "7", "8", "9"}
Letters == {"a", "b", "c", "d", "e", "f", "g", "h", "i", "j", "k", "l", "m",
            "n", "o", "p", "q", "r", "s", "t", "u", "v", "w", "x", "y", "z",
            "A", "B", "C", "D", "E", "F", "G", "H", "I", "J", "K", "L", "M",
            "N", "O", "P", "Q", "R", "S", "T", "U", "V", "W", "X", "Y", "Z"}
WordChars == Letters \cup Digits \cup {"_"}
Whitespace == {" ", "\t", "\n", "\r"}

StartsWith(s, p) == Len(s) >= Len(p) /\ SubSeq(s, 1, Len(p)) = p
EndsWith(s, p) == Len(s) >= Len(p) /\ SubSeq(s, Len(s) - Len(p) + 1, Len(s)) = p
Contains(s, c) == \E i \in 1..Len(s) : s[i] = c

RECURSIVE RStrip(_, _)
RStrip(s, cs) ==
    IF Len(s) > 0 /\ s[Len(s)] \in cs
    THEN RStrip(SubSeq(s, 1, Len(s) - 1), cs)
    ELSE s

RECURSIVE LStrip(_, _)
LStrip(s, cs) ==
    IF Len(s) > 0 /\ s[1] \in cs
    THEN LStrip(SubSeq(s, 2, Len(s)), cs)
    ELSE s

Strip(s, cs) == LStrip(RStrip(s, cs), cs)

Replace(s, a, b) == [i \in 1..Len(s) |-> IF s[i] = a THEN b ELSE s[i]]

DropLast(s) == SubSeq(s, 1, Len(s) - 1)

\* Python slice line[a:b] (0-based, clipped to the length of the line)
Slice(s, a, b) == SubSeq(s, a + 1, IF b < Len(s) THEN b ELSE Len(s))

----------------------------------------------------------------------------
(* convert_atom_name, both variants                                        *)

H5P  == <<"H", "5", "'">>
H5PP == <<"H", "5", "'", "'">>
H5W  == <<"H", "5", "'", "*">>

ConvertPrimeGeneral(a) ==
    LET base_name == RStrip(a, {"1", "2", "3", PRIME})
    IN  IF EndsWith(a, <<"1">>) \/ EndsWith(a, <<PRIME>>)
        THEN <<TRUE, base_name \o <<PRIME>>>>
        ELSE IF EndsWith(a, <<"2">>) \/ EndsWith(a, <<PRIME, PRIME>>)
        THEN <<TRUE, base_name \o <<PRIME, PRIME>>>>
        ELSE <<FALSE, a>>

ConvertGeneral(atom_name) ==
    LET a == Strip(atom_name, {QUOTE})
        h5 == IF ~StartsWith(a, H5P) THEN <<FALSE, a>>
              ELSE IF EndsWith(a, <<"1">>) \/ a = H5P THEN <<TRUE, H5P>>
              ELSE IF EndsWith(a, <<"2">>) \/ a = H5PP THEN <<TRUE, H5PP>>
              ELSE <<FALSE, a>>
        pr == IF Contains(a, PRIME) THEN ConvertPrimeGeneral(a) ELSE <<FALSE, a>>
    IN  IF h5[1] THEN h5[2]
        ELSE IF pr[1] THEN pr[2]
        ELSE IF EndsWith(a, <<HASH>>) THEN DropLast(a) \o <<STAR>>
        ELSE a

ConvertMapper(atom_name) ==
    LET a == Strip(atom_name, {QUOTE})
        h5 == IF ~StartsWith(a, H5P) THEN <<FALSE, a>>
              ELSE IF EndsWith(a, <<"1">>) THEN <<TRUE, H5P>>
              ELSE IF EndsWith(a, <<"2">>) THEN <<TRUE, H5PP>>
              ELSE <<FALSE, a>>
        pr == IF Contains(a, PRIME) /\ a[Len(a)] \in Digits
              THEN IF EndsWith(a, <<"1">>) THEN <<TRUE, DropLast(a)>>
                   ELSE IF EndsWith(a, <<"2">>) THEN <<TRUE, DropLast(a) \o <<PRIME>>>>
                   ELSE <<FALSE, a>>
              ELSE <<FALSE, a>>
    IN  IF h5[1] THEN h5[2]
        ELSE IF pr[1] THEN pr[2]
        ELSE a

convert_atom_name(v, atom_name) ==
    IF v = "general" THEN ConvertGeneral(atom_name) ELSE ConvertMapper(atom_name)

----------------------------------------------------------------------------
(* The two regular expressions of parse_mr_file, scanned left to right.    *)
(* Adjacent character classes of both patterns are disjoint, so the greedy *)
(* scan below needs no backtracking and finds exactly re.findall's matches.*)

RECURSIVE SkipWhile(_, _, _)
SkipWhile(s, p, cs) ==
    IF p <= Len(s) /\ s[p] \in cs THEN SkipWhile(s, p + 1, cs) ELSE p

LitAt(s, p, lit) == p + Len(lit) - 1 <= Len(s) /\ SubSeq(s, p, p + Len(lit) - 1) = lit

RESID_LIT == <<"(", "r", "e", "s", "i", "d">>
AND_LIT == <<"a", "n", "d">>
NAME_LIT == <<"n", "a", "m", "e">>
ASSIGN_LIT == <<"a", "s", "s", "i", "g", "n">>
ATOM_LIT == <<"A", "T", "O", "M">>
NA == <<"N", "/", "A">>

\* [\w\'\"]
AtomNameChars == WordChars \cup {PRIME, QUOTE}

\* \(resid\s+(\d+)\s+and\s+name\s+([\w\'\"]+)\s*\) tried at position p
MatchRef(s, p) ==
    LET p1 == p + Len(RESID_LIT)
        p2 == SkipWhile(s, p1, Whitespace)
        p3 == SkipWhile(s, p2, Digits)
        p4 == SkipWhile(s, p3, Whitespace)
        p5 == p4 + Len(AND_LIT)
        p6 == SkipWhile(s, p5, Whitespace)
        p7 == p6 + Len(NAME_LIT)
        p8 == SkipWhile(s, p7, Whitespace)
        p9 == SkipWhile(s, p8, AtomNameChars)
        p10 == SkipWhile(s, p9, Whitespace)
        ok == /\ LitAt(s, p, RESID_LIT)
              /\ p2 > p1 /\ p3 > p2 /\ p4 > p3
              /\ LitAt(s, p4, AND_LIT)
              /\ p6 > p5
              /\ LitAt(s, p6, NAME_LIT)
              /\ p8 > p7 /\ p9 > p8
              /\ LitAt(s, p10, <<")">>)
    IN  IF ok
        THEN [ok |-> TRUE, end |-> p10 + 1,
              group |-> <<SubSeq(s, p2, p3 - 1), SubSeq(s, p8, p9 - 1)>>]
        ELSE [ok |-> FALSE, end |-> p + 1, group |-> <<>>]

\* \d+\.\d+ tried at position p
MatchFloat(s, p) ==
    LET q == SkipWhile(s, p, Digits)
        r == SkipWhile(s, q + 1, Digits)
        ok == q > p /\ LitAt(s, q, <<".">>) /\ r > q + 1
    IN  IF ok
        THEN [ok |-> TRUE, end |-> r, group |-> SubSeq(s, p, r - 1)]
        ELSE [ok |-> FALSE, end |-> p + 1, group |-> <<>>]

RECURSIVE FindAllRefs(_, _)
FindAllRefs(s, p) ==
    IF p > Len(s) THEN <<>>
    ELSE LET m == MatchRef(s, p)
         IN  IF m.ok THEN <<m.group>> \o FindAllRefs(s, m.end)
             ELSE FindAllRefs(s, m.end)

RECURSIVE FindAllFloats(_, _)
FindAllFloats(s, p) ==
    IF p > Len(s) THEN <<>>
    ELSE LET m == MatchFloat(s, p)
         IN  IF m.ok THEN <<m.group>> \o FindAllFloats(s, m.end)
             ELSE FindAllFloats(s, m.end)

----------------------------------------------------------------------------
(* Records                                                                 *)

HeaderRec(lines) ==
    [tag |-> "header", lines |-> lines, parts |-> <<>>, float_values |-> <<>>]

DataRec(parts, float_values) ==
    [tag |-> "data", lines |-> <<>>, parts |-> parts, float_values |-> float_values]

LinkedHeader(item) ==
    [tag |-> "header", lines |-> item.lines, indices |-> <<>>,
     atom_names |-> <<>>, float_values |-> <<>>]

LinkedData(indices, atom_names, float_values) ==
    [tag |-> "data", lines |-> <<>>, indices |-> indices,
     atom_names |-> atom_names, float_values |-> float_values]

\* Bytes the text decoder rejects: reading a line that holds them raises.
BadByte == "<0xFF>"
Unreadable(line) == Contains(line, BadByte)

----------------------------------------------------------------------------
(* parse_mr_file                                                           *)

\* parts = [(resid, convert_atom_name(atom_name.strip('"'))) for ...]
ParseParts(v, line) ==
    LET found == FindAllRefs(line, 1)
    IN  [k \in 1..Len(found) |->
            <<found[k][1], convert_atom_name(v, Strip(found[k][2], {QUOTE}))>>]

\* The pending header block flushed ahead of an assign line or another line.
FlushPending(data, block) ==
    IF block # <<>> THEN Append(data, HeaderRec(block)) ELSE data

\* Mutation of HeaderLineStep: the closing delimiter line is not kept.
HeaderLineStepDropsDelimiter(line, data, block, inh) ==
    IF line = <<BANG>>
    THEN [data |-> IF block # <<>> THEN Append(data, HeaderRec(block)) ELSE data,
          block |-> <<>>, inh |-> FALSE]
    ELSE [data |-> data, block |-> Append(block, line), inh |-> inh]

\* The body of the loop for a line that starts with '!'.
HeaderLineStep(line, data, block, inh) ==
    LET inh1 == IF ~inh /\ line = <<BANG>> THEN TRUE ELSE inh
        block1 == Append(block, line)
    IN  IF inh1 /\ line = <<BANG>>
        THEN [data |-> Append(data, HeaderRec(block1)), block |-> <<>>, inh |-> FALSE]
        ELSE [data |-> data, block |-> block1, inh |-> inh1]

\* One iteration of "for line in file".
MrLineStep(v, raw, data, block, inh) ==
    LET line == Strip(raw, Whitespace)
    IN  IF StartsWith(line, <<BANG>>)
        THEN HeaderLineStep(line, data, block, inh)
        ELSE IF StartsWith(line, ASSIGN_LIT)
        THEN [data |-> Append(FlushPending(data, block),
                              DataRec(ParseParts(v, line), FindAllFloats(line, 1))),
              block |-> <<>>,
              inh |-> IF block # <<>> THEN FALSE ELSE inh]
        ELSE [data |-> FlushPending(data, block),
              block |-> <<>>,
              inh |-> IF block # <<>> THEN FALSE ELSE inh]

\* After parse_mr_file returns: main's "if not mr_data" test.
AfterParseMr(data) == IF data = <<>> THEN "aborted" ELSE "parse_pdb"

ParseMrLine ==
    /\ pc = "parse_mr"
    /\ pos <= Len(mr_lines)
    /\ ~Unreadable(mr_lines[pos])
    /\ LET r == MrLineStep(variant, mr_lines[pos], mr_data, header_block, in_header)
       IN  /\ mr_data' = r.data
           /\ header_block' = r.block
           /\ in_header' = r.inh
    /\ pos' = pos + 1
    /\ UNCHANGED <<variant, entry, pc, mr_lines, pdb_lines, pdb_data, linked_data,
                   warnings, out, name, conv>>

\* End of file: flush the last header block, return mr_data.
ParseMrEnd ==
    /\ pc = "parse_mr"
    /\ pos > Len(mr_lines)
    /\ mr_data' = FlushPending(mr_data, header_block)
    /\ pc' = AfterParseMr(mr_data')
    /\ pos' = 1
    /\ UNCHANGED <<variant, entry, mr_lines, pdb_lines, header_block, in_header,
                   pdb_data, linked_data, warnings, out, name, conv>>

\* "except Exception": the loop is left, mr_data is returned as it stands.
ParseMrError ==
    /\ pc = "parse_mr"
    /\ pos <= Len(mr_lines)
    /\ Unreadable(mr_lines[pos])
    /\ pc' = AfterParseMr(mr_data)
    /\ pos' = 1
    /\ UNCHANGED <<variant, entry, mr_lines, pdb_lines, mr_data, header_block,
                   in_header, pdb_data, linked_data, warnings, out, name, conv>>

----------------------------------------------------------------------------
(* int() and str()                                                         *)

DigitVal(c) ==
    CASE c = "0" -> 0 [] c = "1" -> 1 [] c = "2" -> 2 [] c = "3" -> 3 [] c = "4" -> 4
      [] c = "5" -> 5 [] c = "6" -> 6 [] c = "7" -> 7 [] c = "8" -> 8 [] c = "9" -> 9

DigitChar(n) ==
    CASE n = 0 -> "0" [] n = 1 -> "1" [] n = 2 -> "2" [] n = 3 -> "3" [] n = 4 -> "4"
      [] n = 5 -> "5" [] n = 6 -> "6" [] n = 7 -> "7" [] n = 8 -> "8" [] n = 9 -> "9"

AllIn(s, cs) == \A i \in 1..Len(s) : s[i] \in cs

RECURSIVE DigitsValue(_)
DigitsValue(s) ==
    IF s = <<>> THEN 0 ELSE 10 * DigitsValue(DropLast(s)) + DigitVal(s[Len(s)])

\* int(text): surrounding whitespace is ignored, one sign is allowed, the rest
\* must be decimal digits; anything else raises ValueError (ok = FALSE).
IntParse(text) ==
    LET t == Strip(text, Whitespace)
        signed == Len(t) > 0 /\ t[1] \in {"-", "+"}
        body == IF signed THEN SubSeq(t, 2, Len(t)) ELSE t
        ok == Len(body) > 0 /\ AllIn(body, Digits)
    IN  [ok |-> ok,
         value |-> IF ~ok THEN 0
                   ELSE IF signed /\ t[1] = "-" THEN 0 - DigitsValue(body)
                   ELSE DigitsValue(body)]

RECURSIVE NatStr(_)
NatStr(n) == IF n < 10 THEN <<DigitChar(n)>> ELSE NatStr(n \div 10) \o <<DigitChar(n % 10)>>

\* str(n)
Str(n) == IF n < 0 THEN <<"-">> \o NatStr(0 - n) ELSE NatStr(n)

----------------------------------------------------------------------------
(* Dictionaries                                                            *)

EmptyDict == [k \in {} |-> 0]
Put(d, k, v) == [x \in DOMAIN d \cup {k} |-> IF x = k THEN v ELSE d[x]]
Has(d, k) == k \in DOMAIN d
GetOr(d, k, default) == IF k \in DOMAIN d THEN d[k] ELSE default

----------------------------------------------------------------------------
(* parse_pdb_file                                                          *)

\* Mutation of PdbInsertGeneral: the wildcard-group write is left out.
PdbInsertGeneralNoWildcard(d, resid, atom_name, atom_index) ==
    LET converted_name == ConvertGeneral(atom_name)
        d1 == Put(d, <<resid, atom_name>>, atom_index)
    IN  IF converted_name # atom_name
        THEN Put(d1, <<resid, converted_name>>, atom_index)
        ELSE d1

\* The three dictionary writes of the general variant for one ATOM line.
PdbInsertGeneral(d, resid, atom_name, atom_index) ==
    LET converted_name == ConvertGeneral(atom_name)
        d1 == Put(d, <<resid, atom_name>>, atom_index)
        d2 == IF converted_name # atom_name
              THEN Put(d1, <<resid, converted_name>>, atom_index)
              ELSE d1
    IN  IF converted_name \in {H5P, H5PP}
        THEN Put(d2, <<resid, H5W>>, atom_index)
        ELSE d2

\* The single dictionary write of the mapper variant.
PdbInsertMapper(d, resid, atom_name, atom_index) ==
    Put(d, <<resid, ConvertMapper(atom_name)>>, atom_index)

\* One iteration of "for line in file"; ok = FALSE when int() raises.
PdbLineStep(v, line, d) ==
    IF ~StartsWith(line, ATOM_LIT) THEN [ok |-> TRUE, data |-> d]
    ELSE LET atom_index == IntParse(Slice(line, 6, 11))
             atom_name == Strip(Slice(line, 12, 16), Whitespace)
             resid == IntParse(Slice(line, 22, 26))
         IN  IF ~atom_index.ok \/ ~resid.ok THEN [ok |-> FALSE, data |-> d]
             ELSE [ok |-> TRUE,
                   data |-> IF v = "general"
                            THEN PdbInsertGeneral(d, resid.value, atom_name,
                                                  atom_index.value)
                            ELSE PdbInsertMapper(d, resid.value, atom_name,
                                                 atom_index.value)]

PdbRaises(v, line, d) == Unreadable(line) \/ ~PdbLineStep(v, line, d).ok

\* After parse_pdb_file returns: main's "if not pdb_data" test.
AfterParsePdb(e, d) ==
    IF e = "parse_pdb_file" THEN "done"
    ELSE IF DOMAIN d = {} THEN "aborted" ELSE "link"

ParsePdbLine ==
    /\ pc = "parse_pdb"
    /\ pos <= Len(pdb_lines)
    /\ ~PdbRaises(variant, pdb_lines[pos], pdb_data)
    /\ pdb_data' = PdbLineStep(variant, pdb_lines[pos], pdb_data).data
    /\ pos' = pos + 1
    /\ UNCHANGED <<variant, entry, pc, mr_lines, pdb_lines, mr_data, header_block,
                   in_header, linked_data, warnings, out, name, conv>>

ParsePdbEnd ==
    /\ pc = "parse_pdb"
    /\ pos > Len(pdb_lines)
    /\ pc' = AfterParsePdb(entry, pdb_data)
    /\ pos' = 1
    /\ UNCHANGED <<variant, entry, mr_lines, pdb_lines, mr_data, header_block,
                   in_header, pdb_data, linked_data, warnings, out, name, conv>>

\* "except Exception": the loop is left, pdb_data is returned as it stands.
ParsePdbError ==
    /\ pc = "parse_pdb"
    /\ pos <= Len(pdb_lines)
    /\ PdbRaises(variant, pdb_lines[pos], pdb_data)
    /\ pc' = AfterParsePdb(entry, pdb_data)
    /\ pos' = 1
    /\ UNCHANGED <<variant, entry, mr_lines, pdb_lines, mr_data, header_block,
                   in_header, pdb_data, linked_data, warnings, out, name, conv>>

----------------------------------------------------------------------------
(* link_mr_to_pdb                                                          *)

\* The index substituted for one reference, "N/A" when it is not found.
LookupGeneral(d, resid, atom_name) ==
    LET key == <<IntParse(resid).value, ConvertGeneral(atom_name)>>
        alt == <<IntParse(resid).value, Replace(atom_name, HASH, STAR)>>
    IN  IF Has(d, key) THEN Str(d[key])
        ELSE IF Has(d, alt) THEN Str(d[alt])
        ELSE NA

LookupMapper(d, resid, atom_name) ==
    LET key == <<IntParse(resid).value, atom_name>>
    IN  IF Has(d, key) THEN Str(d[key]) ELSE NA

Lookup(v, d, resid, atom_name) ==
    IF v = "general" THEN LookupGeneral(d, resid, atom_name)
    ELSE LookupMapper(d, resid, atom_name)

\* Mutation of Tally: the count is set, not incremented.
TallyOverwrite(w, resid, atom_name) == Put(w, <<resid, atom_name>>, 1)

\* warnings[(resid, atom_name)] += 1
Tally(w, resid, atom_name) ==
    Put(w, <<resid, atom_name>>, GetOr(w, <<resid, atom_name>>, 0) + 1)

\* The inner loop over the references of one data record, from reference k on.
RECURSIVE LinkParts(_, _, _, _, _, _)
LinkParts(v, d, parts, k, indices, w) ==
    IF k > Len(parts) THEN [indices |-> indices, warnings |-> w]
    ELSE LET resid == parts[k][1]
             atom_name == parts[k][2]
             found == Lookup(v, d, resid, atom_name)
         IN  LinkParts(v, d, parts, k + 1, Append(indices, found),
                       IF found = NA THEN Tally(w, resid, atom_name) ELSE w)

\* Mutation of LinkStep: header records are not passed through.
LinkStepSkipsHeaders(v, d, item, linked, w) ==
    IF item.tag = "header"
    THEN [linked |-> linked, warnings |-> w]
    ELSE LET r == LinkParts(v, d, item.parts, 1, <<>>, w)
             atom_names == [k \in 1..Len(item.parts) |-> item.parts[k][2]]
         IN  [linked |-> Append(linked, LinkedData(r.indices, atom_names,
                                                   item.float_values)),
              warnings |-> r.warnings]

\* One iteration of "for item in mr_data".
LinkStep(v, d, item, linked, w) ==
    IF item.tag = "header"
    THEN [linked |-> Append(linked, LinkedHeader(item)), warnings |-> w]
    ELSE LET r == LinkParts(v, d, item.parts, 1, <<>>, w)
             atom_names == [k \in 1..Len(item.parts) |-> item.parts[k][2]]
         IN  [linked |-> Append(linked, LinkedData(r.indices, atom_names,
                                                   item.float_values)),
              warnings |-> r.warnings]

AfterLink(e) == IF e = "link_mr_to_pdb" THEN "done" ELSE "write"

LinkItem ==
    /\ pc = "link"
    /\ pos <= Len(mr_data)
    /\ LET r == LinkStep(variant, pdb_data, mr_data[pos], linked_data, warnings)
       IN  /\ linked_data' = r.linked
           /\ warnings' = r.warnings
    /\ pos' = pos + 1
    /\ UNCHANGED <<variant, entry, pc, mr_lines, pdb_lines, mr_data, header_block,
                   in_header, pdb_data, out, name, conv>>

LinkEnd ==
    /\ pc = "link"
    /\ pos > Len(mr_data)
    /\ pc' = AfterLink(entry)
    /\ pos' = 1
    /\ UNCHANGED <<variant, entry, mr_lines, pdb_lines, mr_data, header_block,
                   in_header, pdb_data, linked_data, warnings, out, name, conv>>

----------------------------------------------------------------------------
(* format_output_line and the output loop of main                          *)

RECURSIVE Spaces(_)
Spaces(n) == IF n <= 0 THEN <<>> ELSE <<SP>> \o Spaces(n - 1)

\* f"{x:>w}" and f"{x:<w}"
RJust(s, w) == Spaces(w - Len(s)) \o s
LJust(s, w) == s \o Spaces(w - Len(s))

RECURSIVE Join(_, _)
Join(parts, sep) ==
    IF parts = <<>> THEN <<>>
    ELSE IF Len(parts) = 1 THEN parts[1]
    ELSE parts[1] \o sep \o Join(Tail(parts), sep)

\* f"{float(value):.3f}" for a literal digits.digits; exact for literals of at
\* most three fraction digits, which is what the inputs below hold.
Fixed3(value) ==
    LET dot == SkipWhile(value, 1, Digits)
        whole == LStrip(SubSeq(value, 1, dot - 1), {"0"})
        frac == SubSeq(value, dot + 1, Len(value)) \o <<"0", "0", "0">>
    IN  (IF whole = <<>> THEN <<"0">> ELSE whole) \o <<".">> \o SubSeq(frac, 1, 3)

\* main calls it with include_atom_names=False.
format_output_line(indices, float_values) ==
    LET formatted_indices == [k \in 1..Len(indices) |-> RJust(indices[k], 6)]
        formatted_floats == [k \in 1..Len(float_values) |->
                                LJust(Fixed3(float_values[k]), 8)]
    IN  RStrip(Join(<<Join(formatted_indices, <<SP>>),
                      Join(formatted_floats, <<SP>>)>>, Spaces(4)),
               Whitespace)

\* The lines one linked record adds to the output file.
OutputLines(item) ==
    IF item.tag = "header"
    THEN [k \in 1..Len(item.lines) |-> Replace(item.lines[k], BANG, HASH) \o <<"\n">>]
    ELSE <<format_output_line(item.indices, item.float_values) \o <<"\n">>>>

WriteItem ==
    /\ pc = "write"
    /\ pos <= Len(linked_data)
    /\ out' = out \o OutputLines(linked_data[pos])
    /\ pos' = pos + 1
    /\ UNCHANGED <<variant, entry, pc, mr_lines, pdb_lines, mr_data, header_block,
                   in_header, pdb_data, linked_data, warnings, name, conv>>

WriteEnd ==
    /\ pc = "write"
    /\ pos > Len(linked_data)
    /\ pc' = "done"
    /\ pos' = 1
    /\ UNCHANGED <<variant, entry, mr_lines, pdb_lines, mr_data, header_block,
                   in_header, pdb_data, linked_data, warnings, out, name, conv>>

----------------------------------------------------------------------------
(* convert_atom_name called on its own, then on its own result             *)

MaxCalls == 2

Convert ==
    /\ pc = "convert"
    /\ Len(conv) < MaxCalls
    /\ conv' = Append(conv, convert_atom_name(variant,
                                IF conv = <<>> THEN name ELSE conv[Len(conv)]))
    /\ UNCHANGED <<variant, entry, pc, mr_lines, pdb_lines, pos, mr_data,
                   header_block, in_header, pdb_data, linked_data, warnings, out,
                   name>>

----------------------------------------------------------------------------
(* Input files                                                             *)

MaxLines == 3       \* lines of an MR file
MaxAtoms == 3       \* lines of a PDB file, parse_pdb_file on its own
MaxLinkSize == 4    \* records plus references handed to link_mr_to_pdb
MaxNameLen == 4     \* characters of an atom name handed to convert_atom_name

SeqUpTo(S, n) == UNION {[1..k -> S] : k \in 0..n}

H5p1 == <<"H", "5", "'", "1">>
H5p2 == <<"H", "5", "'", "2">>
H2p  == <<"H", "2", "'">>
H3p  == <<"H", "3", "'">>
H2p1 == <<"H", "2", "'", "1">>
H2p2 == <<"H", "2", "'", "2">>
Hpp  == <<"H", "'", "'">>
H5h  == <<"H", "5", "'", "#">>
ZZ   == <<"Z", "Z">>

\* "(resid R and name N)" as the MR file writes a reference
Clause(resid, nm) ==
    RESID_LIT \o <<SP>> \o resid \o <<SP>> \o AND_LIT \o <<SP>> \o NAME_LIT
        \o <<SP>> \o nm \o <<")">>

RECURSIVE SpacedJoin(_)
SpacedJoin(parts) ==
    IF parts = <<>> THEN <<>> ELSE <<SP>> \o Head(parts) \o SpacedJoin(Tail(parts))

\* "assign <references> <numbers>\n"
AssignLine(clauses, numbers) ==
    ASSIGN_LIT \o SpacedJoin(clauses) \o SpacedJoin(numbers) \o <<"\n">>

\* A fixed-column coordinate line: record name in columns 1-6, serial in 7-11,
\* atom name in 13-16, residue name in 18-20, chain in 22, residue number in 23-26.
CoordLine(rec, serial, nm, resSeq) ==
    LJust(rec, 6) \o RJust(serial, 5) \o <<SP>> \o LJust(nm, 4) \o <<SP>>
        \o <<"D", "A", SP, SP, "A">> \o RJust(resSeq, 4) \o <<"\n">>

AtomLine(serial, nm, resSeq) == CoordLine(ATOM_LIT, serial, nm, resSeq)

UnreadableLine == <<BadByte>>

\* assign (resid 5 and name H5'1) (resid 5 and name H5'*) 3.4
WildcardRefs == << <<<<"5">>, H5p1>>, <<<<"5">>, H5W>> >>
WildcardLine ==
    AssignLine([k \in 1..Len(WildcardRefs) |->
                   Clause(WildcardRefs[k][1], WildcardRefs[k][2])],
               <<<<"3", ".", "4">>>>)

\* assign (resid 05 and name ZZ) (resid 5 and name H2') 4 0.5
SugarRefs == << <<<<"0", "5">>, ZZ>>, <<<<"5">>, H2p>> >>
SugarLine ==
    AssignLine([k \in 1..Len(SugarRefs) |-> Clause(SugarRefs[k][1], SugarRefs[k][2])],
               <<<<"4">>, <<"0", ".", "5">>>>)

BareLine == <<BANG, "\n">>
CommentLine == <<SP, BANG, "h", BANG, SP, "\n">>
BlankLine == <<"\n">>

\* Lines an MR file of the main run is made of.
MrCatalogue ==
    {BareLine, CommentLine, BlankLine, WildcardLine, SugarLine, UnreadableLine}

\* PDB files of the main run: a residue with sugar protons, an empty file, and
\* a file whose second ATOM line has no number in the serial columns.
PdbFilesMain ==
    { << AtomLine(<<"7">>, H5p1, <<"5">>), AtomLine(<<"8">>, H5p2, <<"5">>),
         AtomLine(<<"9">>, H2p, <<"5">>), AtomLine(<<"1", "0">>, H3p, <<"5">>) >>,
      << >>,
      << AtomLine(<<"7">>, H5p1, <<"5">>), AtomLine(<<"x">>, H5p2, <<"5">>),
         AtomLine(<<"9">>, H2p, <<"5">>) >> }

\* Lines of a PDB file handed to parse_pdb_file on its own; line k of the file
\* carries serial k.
PdbChoices ==
    {[kind |-> "atom", nm |-> n, resSeq |-> <<"5">>] :
        n \in {H5p1, H5p2, H5P, H2p1, H2p2, H2p}}
    \cup {[kind |-> "atom", nm |-> H5p1, resSeq |-> <<"6">>],
          [kind |-> "hetatm", nm |-> H5p1, resSeq |-> <<"5">>],
          [kind |-> "badserial", nm |-> H5p2, resSeq |-> <<"5">>],
          [kind |-> "unreadable", nm |-> <<>>, resSeq |-> <<>>]}

PdbLineOf(c, k) ==
    CASE c.kind = "atom" -> AtomLine(Str(k), c.nm, c.resSeq)
      [] c.kind = "hetatm" -> CoordLine(<<"H", "E", "T", "A", "T", "M">>, Str(k),
                                        c.nm, c.resSeq)
      [] c.kind = "badserial" -> AtomLine(<<"*", "*">>, c.nm, c.resSeq)
      [] c.kind = "unreadable" -> UnreadableLine

PdbFiles ==
    {[k \in 1..Len(cs) |-> PdbLineOf(cs[k], k)] : cs \in SeqUpTo(PdbChoices, MaxAtoms)}

\* Records and indexes handed to link_mr_to_pdb on its own.
LinkRefs ==
    { <<<<"5">>, H5P>>, <<<<"0", "5">>, ZZ>>, <<<<"5">>, ZZ>>, <<<<"5">>, Hpp>>,
      <<<<"5">>, H5h>> }

LinkHeaders == { HeaderRec(<<<<BANG>>, <<BANG, "h">>>>) }

\* Records of weight w: a header weighs 1, a data record 1 plus its references.
LinkItems(w) ==
    (IF w = 1 THEN LinkHeaders ELSE {})
    \cup {DataRec(parts, <<<<"3", ".", "4">>>>) : parts \in [1..(w - 1) -> LinkRefs]}

RECURSIVE LinkInputs(_)
LinkInputs(w) ==
    {<<>>} \cup UNION {
        {<<item>> \o rest : item \in LinkItems(k), rest \in LinkInputs(w - k)}
        : k \in 1..w}

LinkKeys == { <<5, H5P>>, <<5, Hpp>>, <<5, H5W>> }
LinkValue(key) == IF key[2] = H5P THEN 7 ELSE IF key[2] = Hpp THEN 12 ELSE 8
LinkIndexes == {[key \in K |-> LinkValue(key)] : K \in SUBSET LinkKeys}

NormAlphabet == {"H", "C", "1", "2", "3", "4", "5", PRIME, QUOTE, HASH, STAR}

----------------------------------------------------------------------------
(* Specifications                                                          *)

\* main()
Init ==
    /\ variant \in Variants
    /\ entry = "main"
    /\ pc = "parse_mr"
    /\ mr_lines \in SeqUpTo(MrCatalogue, MaxLines)
    /\ pdb_lines \in PdbFilesMain
    /\ pos = 1
    /\ mr_data = <<>> /\ header_block = <<>> /\ in_header = FALSE
    /\ pdb_data = EmptyDict /\ linked_data = <<>> /\ warnings = EmptyDict
    /\ out = <<>> /\ name = <<>> /\ conv = <<>>

Next ==
    \/ ParseMrLine \/ ParseMrEnd \/ ParseMrError
    \/ ParsePdbLine \/ ParsePdbEnd \/ ParsePdbError
    \/ LinkItem \/ LinkEnd
    \/ WriteItem \/ WriteEnd

Spec == Init /\ [][Next]_vars

\* parse_pdb_file(path)
InitPdb ==
    /\ variant \in Variants
    /\ entry = "parse_pdb_file"
    /\ pc = "parse_pdb"
    /\ mr_lines = <<>>
    /\ pdb_lines \in PdbFiles
    /\ pos = 1
    /\ mr_data = <<>> /\ header_block = <<>> /\ in_header = FALSE
    /\ pdb_data = EmptyDict /\ linked_data = <<>> /\ warnings = EmptyDict
    /\ out = <<>> /\ name = <<>> /\ conv = <<>>

NextPdb == ParsePdbLine \/ ParsePdbEnd \/ ParsePdbError

SpecPdb == InitPdb /\ [][NextPdb]_vars

\* link_mr_to_pdb(mr_data, pdb_data)
InitLink ==
    /\ variant \in Variants
    /\ entry = "link_mr_to_pdb"
    /\ pc = "link"
    /\ mr_lines = <<>> /\ pdb_lines = <<>>
    /\ pos = 1
    /\ mr_data \in LinkInputs(MaxLinkSize)
    /\ header_block = <<>> /\ in_header = FALSE
    /\ pdb_data \in LinkIndexes
    /\ linked_data = <<>> /\ warnings = EmptyDict
    /\ out = <<>> /\ name = <<>> /\ conv = <<>>

NextLink == LinkItem \/ LinkEnd

SpecLink == InitLink /\ [][NextLink]_vars

\* convert_atom_name(atom_name)
InitNorm ==
    /\ variant \in Variants
    /\ entry = "convert_atom_name"
    /\ pc = "convert"
    /\ mr_lines = <<>> /\ pdb_lines = <<>> /\ pos = 1
    /\ mr_data = <<>> /\ header_block = <<>> /\ in_header = FALSE
    /\ pdb_data = EmptyDict /\ linked_data = <<>> /\ warnings = EmptyDict
    /\ out = <<>>
    /\ name \in SeqUpTo(NormAlphabet, MaxNameLen)
    /\ conv = <<>>

NextNorm == Convert

SpecNorm == InitNorm /\ [][NextNorm]_vars

----------------------------------------------------------------------------
(* Properties: vocabulary                                                  *)

Stripped(raw) == Strip(raw, Whitespace)
IsHeaderLine(raw) == StartsWith(Stripped(raw), <<BANG>>)
IsBareLine(raw) == Stripped(raw) = <<BANG>>
IsAssignLine(raw) == ~IsHeaderLine(raw) /\ StartsWith(Stripped(raw), ASSIGN_LIT)

MrReadable == \A k \in 1..Len(mr_lines) : ~Unreadable(mr_lines[k])

\* The references an assign line of the catalogue writes, in order.
WrittenRefs(raw) ==
    IF raw = WildcardLine THEN WildcardRefs
    ELSE IF raw = SugarLine THEN SugarRefs
    ELSE <<>>

DataOnly(records) == SelectSeq(records, LAMBDA r : r.tag = "data")

\* The linked data record that MR line k produced (k an assign line).
LinkedOfLine(k) ==
    DataOnly(linked_data)[Cardinality({j \in 1..k : IsAssignLine(mr_lines[j])})]

\* The atoms the PDB file states: serial, raw name and residue of each ATOM line.
PdbAtomOf(line) ==
    [idx |-> IntParse(Slice(line, 6, 11)).value,
     nm |-> Strip(Slice(line, 12, 16), Whitespace),
     res |-> IntParse(Slice(line, 22, 26)).value]

PdbAllAtoms ==
    \A l \in 1..Len(pdb_lines) :
        StartsWith(pdb_lines[l], ATOM_LIT) /\ ~PdbRaises(variant, pdb_lines[l], EmptyDict)

PdbAtoms == {PdbAtomOf(pdb_lines[l]) : l \in 1..Len(pdb_lines)}

Linked == pc \in {"write", "done"}

----------------------------------------------------------------------------
(* Properties of the main run                                              *)

\* C1: with an ATOM line for residue 5, name H5'1, index i in the PDB file, the
\* line "assign (resid 5 and name H5'1) (resid 5 and name H5'*) ..." yields a
\* data record with one index per reference, str(i) for the exact name and the
\* same str(i) for the wildcard (general variant).
C1_RoundTripWildcard ==
    (variant = "general" /\ Linked /\ MrReadable /\ PdbAllAtoms) =>
        \A k \in 1..Len(mr_lines) : \A a \in PdbAtoms :
            (mr_lines[k] = WildcardLine /\ a.res = 5 /\ a.nm = H5p1) =>
                LinkedOfLine(k).indices = <<Str(a.idx), Str(a.idx)>>

\* C9: a reference whose name is exactly the raw name of an atom of that
\* residue is replaced by that atom's index, never by another atom's index and
\* never by "N/A" (general variant, PDB without duplicate atoms).
C9_NoWrongAtom ==
    (variant = "general" /\ Linked /\ MrReadable /\ PdbAllAtoms) =>
        \A k \in 1..Len(mr_lines) : \A a \in PdbAtoms :
            \A m \in 1..Len(WrittenRefs(mr_lines[k])) :
                LET ref == WrittenRefs(mr_lines[k])[m]
                IN  (mr_lines[k] = SugarLine /\ a.res = IntParse(ref[1]).value
                        /\ a.nm = ref[2]) =>
                    /\ Len(LinkedOfLine(k).indices) = Len(SugarRefs)
                    /\ LinkedOfLine(k).indices[m] = Str(a.idx)

\* The file is one header run: a bare '!', then lines that start with '!' and
\* are not bare, then a bare '!'.
IsHeaderRun ==
    /\ Len(mr_lines) >= 2
    /\ IsBareLine(mr_lines[1]) /\ IsBareLine(mr_lines[Len(mr_lines)])
    /\ \A k \in 2..(Len(mr_lines) - 1) :
           IsHeaderLine(mr_lines[k]) /\ ~IsBareLine(mr_lines[k])

\* C10: a bare '!' met outside a header enters InHeader and emits nothing; the
\* record is emitted by the bare '!' met while InHeader.  So a header run of
\* k+2 lines keeps the parser InHeader with no record emitted until its last
\* line, and then yields exactly one header record holding all k+2 lines.
C10_HeaderStateMachine ==
    IsHeaderRun =>
        /\ (pc = "parse_mr" /\ 1 < pos /\ pos <= Len(mr_lines)) =>
               (in_header /\ mr_data = <<>>)
        /\ (pc # "parse_mr") =>
               mr_data = <<HeaderRec([k \in 1..Len(mr_lines) |-> Stripped(mr_lines[k])])>>

\* What the output must look like, line by line: each '!' line with '!' turned
\* into '#', each assign line as a data line, other lines dropped.
DATA == <<"<data>">>

RECURSIVE ExpectedSkeleton(_)
ExpectedSkeleton(lines) ==
    IF lines = <<>> THEN <<>>
    ELSE LET raw == Head(lines)
             here == IF IsHeaderLine(raw)
                     THEN <<Replace(Stripped(raw), BANG, HASH) \o <<"\n">>>>
                     ELSE IF IsAssignLine(raw) THEN <<DATA>>
                     ELSE <<>>
         IN  here \o ExpectedSkeleton(Tail(lines))

\* The output file with every line that does not start with '#' reduced to a
\* data marker.
OutputSkeleton ==
    [k \in 1..Len(out) |-> IF StartsWith(out[k], <<HASH>>) THEN out[k] ELSE DATA]

\* C6: the '#' lines of the output are exactly the '!' lines of the MR file,
\* one for one, in order, '!' replaced by '#', between the same data lines
\* (both variants).
C6_HeaderPreservation ==
    (pc = "done" /\ MrReadable) => OutputSkeleton = ExpectedSkeleton(mr_lines)

\* C6 witness: a complete run over a header block of two lines followed by a
\* data line, written as two '#' lines and one data line.
C6_Witness ==
    /\ pc = "done"
    /\ mr_lines = <<BareLine, CommentLine, SugarLine>>
    /\ Len(out) = 3
    /\ out[1] = <<HASH, "\n">>
    /\ out[2] = <<HASH, "h", HASH, "\n">>

----------------------------------------------------------------------------
(* Properties of parse_pdb_file                                            *)

IsAtomLine(line) == StartsWith(line, ATOM_LIT) /\ ~PdbRaises(variant, line, EmptyDict)
PdbRaised == \E l \in 1..Len(pdb_lines) : PdbRaises(variant, pdb_lines[l], EmptyDict)

\* The keys an ATOM line of the general variant inserts as aliases: the
\* canonical name when it differs from the raw name, and the wildcard group.
AliasKeys(line) ==
    LET a == PdbAtomOf(line)
        canonical == ConvertGeneral(a.nm)
    IN  (IF canonical # a.nm THEN {<<a.res, canonical>>} ELSE {})
        \cup (IF canonical \in {H5P, H5PP} THEN {<<a.res, H5W>>} ELSE {})

\* C3: alias insertion is first-writer-wins: an alias key holds the atom index
\* of the first ATOM line that inserted it, whatever lines follow (general
\* variant).
C3_FirstWriterWins ==
    (variant = "general" /\ pc = "parse_pdb") =>
        \A l \in 1..(pos - 1) :
            IsAtomLine(pdb_lines[l]) =>
                \A key \in AliasKeys(pdb_lines[l]) :
                    (\A j \in 1..(l - 1) :
                        ~(IsAtomLine(pdb_lines[j]) /\ key \in AliasKeys(pdb_lines[j])))
                    => (Has(pdb_data, key) /\ pdb_data[key] = PdbAtomOf(pdb_lines[l]).idx)

\* C8: parsing is all-or-nothing: when a line raises, parse_pdb_file returns an
\* empty index, however many lines were processed before it.
C8_AllOrNothing ==
    (entry = "parse_pdb_file" /\ pc = "done" /\ PdbRaised) => pdb_data = EmptyDict

\* Lines k and l are the "1" and "2" protons of one primed base in one residue.
ProtonPair(k, l) ==
    LET a == PdbAtomOf(pdb_lines[k])
        b == PdbAtomOf(pdb_lines[l])
    IN  /\ IsAtomLine(pdb_lines[k]) /\ IsAtomLine(pdb_lines[l])
        /\ a.res = b.res
        /\ Len(a.nm) >= 2 /\ a.nm[Len(a.nm)] = "1"
        /\ b.nm = DropLast(a.nm) \o <<"2">>
        /\ Contains(DropLast(a.nm), PRIME)

\* The last ATOM line of residue r whose canonical name is H5' or H5''.
H5Lines(r) ==
    {l \in 1..Len(pdb_lines) :
        /\ IsAtomLine(pdb_lines[l])
        /\ PdbAtomOf(pdb_lines[l]).res = r
        /\ ConvertGeneral(PdbAtomOf(pdb_lines[l]).nm) \in {H5P, H5PP}}
LastH5Line(r) == CHOOSE l \in H5Lines(r) : \A j \in H5Lines(r) : j <= l

Parsed == entry = "parse_pdb_file" /\ pc = "done" /\ ~PdbRaised

\* C4 as stated: every primed pair b1/b2 gets two distinct canonical names and
\* a wildcard-group key (r, b*) that maps to the index of one of the two.
C4_EveryPairHasWildcard ==
    (variant = "general" /\ Parsed) =>
        \A k, l \in 1..Len(pdb_lines) :
            ProtonPair(k, l) =>
                LET a == PdbAtomOf(pdb_lines[k])
                    b == PdbAtomOf(pdb_lines[l])
                    group == <<a.res, DropLast(a.nm) \o <<STAR>>>>
                IN  /\ ConvertGeneral(a.nm) # ConvertGeneral(b.nm)
                    /\ Has(pdb_data, group)
                    /\ pdb_data[group] \in {a.idx, b.idx}

\* C4 (amended): every primed pair b1/b2 gets two distinct canonical names; the
\* pair H5'1/H5'2 also gets the wildcard-group key (r, H5'*), which both lines
\* write and which maps to the index of the last ATOM line of residue r whose
\* canonical name is H5' or H5''.  Other primed pairs get no wildcard key.
C4_H5PairHasWildcard ==
    (variant = "general" /\ Parsed) =>
        \A k, l \in 1..Len(pdb_lines) :
            ProtonPair(k, l) =>
                LET a == PdbAtomOf(pdb_lines[k])
                    b == PdbAtomOf(pdb_lines[l])
                    base == DropLast(a.nm)
                IN  /\ ConvertGeneral(a.nm) # ConvertGeneral(b.nm)
                    /\ base = H5P =>
                        /\ Has(pdb_data, <<a.res, H5W>>)
                        /\ pdb_data[<<a.res, H5W>>] =
                               PdbAtomOf(pdb_lines[LastH5Line(a.res)]).idx
                        /\ <<a.res, H5W>> \in AliasKeys(pdb_lines[k])
                        /\ <<a.res, H5W>> \in AliasKeys(pdb_lines[l])
                    /\ base # H5P => ~Has(pdb_data, <<a.res, base \o <<STAR>>>>)

\* C4 witness: a fully parsed file that holds H5'1 and H5'2 in one residue,
\* with the wildcard key of that residue in the index.
C4_Witness ==
    /\ variant = "general" /\ Parsed
    /\ \E k, l \in 1..Len(pdb_lines) :
           /\ ProtonPair(k, l)
           /\ PdbAtomOf(pdb_lines[k]).nm = H5p1
           /\ Has(pdb_data, <<PdbAtomOf(pdb_lines[k]).res, H5W>>)

----------------------------------------------------------------------------
(* Properties of convert_atom_name                                         *)

\* C5: convert_atom_name is idempotent: converting a converted name changes
\* nothing (general variant).
C5_Idempotent ==
    (variant = "general" /\ Len(conv) >= 2) => conv[2] = conv[1]

----------------------------------------------------------------------------
(* Properties of link_mr_to_pdb                                            *)

\* Positions <<record, reference>> of the linked output that hold "N/A".
SentinelPositions ==
    UNION {{<<k, m>> : m \in {m \in 1..Len(linked_data[k].indices) :
                                 linked_data[k].indices[m] = NA}}
           : k \in 1..Len(linked_data)}

RefAt(p) == mr_data[p[1]].parts[p[2]]

RECURSIVE SumTally(_)
SumTally(keys) ==
    IF keys = {} THEN 0
    ELSE LET key == CHOOSE x \in keys : TRUE
         IN  warnings[key] + SumTally(keys \ {key})

SameAtom(key, other) ==
    IntParse(key[1]).value = IntParse(other[1]).value /\ key[2] = other[2]

\* What "found in the index" means for a reference, per variant.
FoundInIndex(ref) ==
    LET r == IntParse(ref[1]).value
    IN  IF variant = "general"
        THEN Has(pdb_data, <<r, ConvertGeneral(ref[2])>>)
             \/ Has(pdb_data, <<r, Replace(ref[2], HASH, STAR)>>)
        ELSE Has(pdb_data, <<r, ref[2]>>)

\* C2: a reference gets "N/A" exactly when it is not found; the tally entry of
\* a (residue id, atom name) pair counts the "N/A" entries of that pair, per
\* key as written and per residue number; entries exist only for unresolved
\* references; the tally sums to the number of "N/A" entries (both variants).
C2_TallyCountsSentinels ==
    LET seen == DOMAIN warnings \cup {RefAt(p) : p \in SentinelPositions}
    IN  /\ Len(linked_data) <= Len(mr_data)
        /\ \A k \in 1..Len(linked_data) : \A m \in 1..Len(linked_data[k].indices) :
               (linked_data[k].indices[m] = NA) <=> ~FoundInIndex(RefAt(<<k, m>>))
        /\ \A key \in seen :
               /\ Has(warnings, key)
               /\ warnings[key] >= 1
               /\ warnings[key] = Cardinality({p \in SentinelPositions : RefAt(p) = key})
               /\ SumTally({other \in DOMAIN warnings : SameAtom(key, other)})
                      = Cardinality({p \in SentinelPositions : SameAtom(key, RefAt(p))})
        /\ SumTally(DOMAIN warnings) = Cardinality(SentinelPositions)

\* C2 witness: linking finished with one pair unresolved twice and another
\* reference resolved.
C2_Witness ==
    /\ entry = "link_mr_to_pdb" /\ pc = "done"
    /\ \E key \in DOMAIN warnings : warnings[key] = 2
    /\ \E k \in 1..Len(linked_data) : \E m \in 1..Len(linked_data[k].indices) :
           linked_data[k].indices[m] # NA

C7_Shape ==
    /\ Len(linked_data) <= Len(mr_data)
    /\ pc = "link" => Len(linked_data) = pos - 1
    /\ pc = "done" => Len(linked_data) = Len(mr_data)
    /\ \A k \in 1..Len(linked_data) :
           LET p == mr_data[k]
               q == linked_data[k]
           IN  /\ q.tag = p.tag
               /\ p.tag = "header" => q.lines = p.lines
               /\ p.tag = "data" =>
                      /\ Len(q.indices) = Len(p.parts)
                      /\ Len(q.atom_names) = Len(p.parts)
                      /\ q.float_values = p.float_values
                      /\ \A m \in 1..Len(p.parts) :
                             /\ q.atom_names[m] = p.parts[m][2]
                             /\ \/ q.indices[m] = NA
                                \/ \E key \in DOMAIN pdb_data :
                                       /\ key[1] = IntParse(p.parts[m][1]).value
                                       /\ q.indices[m] = Str(pdb_data[key])

C7_InputsKept == mr_data' = mr_data /\ pdb_data' = pdb_data

\* C7: linking keeps the structure: same length, same tags position by
\* position, header lines identical, one index entry per reference in order,
\* bounds unchanged; and it leaves the parsed records and the index as they
\* were (both variants).
C7_StructurePreserving == []C7_Shape /\ [][C7_InputsKept]_vars

\* C7 witness: linking finished on a header record followed by a data record
\* with one resolved and one unresolved reference.
C7_Witness ==
    /\ entry = "link_mr_to_pdb" /\ pc = "done"
    /\ Len(linked_data) = 2
    /\ linked_data[1].tag = "header" /\ linked_data[2].tag = "data"
    /\ Len(linked_data[2].indices) = 2
    /\ linked_data[2].indices[1] = NA /\ linked_data[2].indices[2] # NA

====
